---- MODULE Spec2Model ----
(***************************************************************************)
(* MarkdownParser of src/main.py: a single pass over the lines of a file   *)
(* that emits Google Docs requests and collects a footer.  A string is a   *)
(* sequence of Unicode code points; a line is what Python's file iteration *)
(* yields (no newline except possibly as its last character).              *)
(***************************************************************************)
EXTENDS Integers, Sequences, FiniteSets, TLC

VARIABLES index, mode, list_start, indents, list_type, footer_text, requests,
          pc, lines, pre, entered

vars == <<index, mode, list_start, indents, list_type, footer_text, requests,
          pc, lines, pre, entered>>

\* Number of lines of the input file.
MaxLines == 4

----------------------------------------------------------------------------
\* Characters.  A Python str is a sequence of Unicode code points: a
\* character is its code point (a number of 0..1114111) and a string is a
\* sequence of code points.

\* The characters of ASCII from " " (32) to "_" (95) and from "a" (97) to
\* "~" (126), in code point order.
Ascii32 ==
    << " ", "!", "\"", "#", "$", "%", "&", "'", "(", ")", "*", "+", ",", "-",
       ".", "/", "0", "1", "2", "3", "4", "5", "6", "7", "8", "9", ":", ";",
       "<", "=", ">", "?", "@", "A", "B", "C", "D", "E", "F", "G", "H", "I",
       "J", "K", "L", "M", "N", "O", "P", "Q", "R", "S", "T", "U", "V", "W",
       "X", "Y", "Z", "[", "\\", "]", "^", "_" >>

Ascii97 ==
    << "a", "b", "c", "d", "e", "f", "g", "h", "i", "j", "k", "l", "m", "n",
       "o", "p", "q", "r", "s", "t", "u", "v", "w", "x", "y", "z", "{", "|",
       "}", "~" >>

\* ord(c) of the ASCII character c
Ord(c) ==
    IF c = "\t" THEN 9
    ELSE IF c = "\n" THEN 10
    ELSE IF \E i \in 1..Len(Ascii32) : Ascii32[i] = c
    THEN 31 + (CHOOSE i \in 1..Len(Ascii32) : Ascii32[i] = c)
    ELSE 96 + (CHOOSE i \in 1..Len(Ascii97) : Ascii97[i] = c)

\* The str that the ASCII string literal s denotes.
Str(s) == [i \in 1..Len(s) |-> Ord(SubSeq(s, i, i))]

\* The characters that the regular expressions and the methods name.
Tab          == 9      \* "\t"
Newline      == 10     \* "\n"
Space        == 32     \* " "
Hash         == 35     \* "#"
Asterisk     == 42     \* "*"
Hyphen       == 45     \* "-"
Colon        == 58     \* ":"
At           == 64     \* "@"
OpenBracket  == 91     \* "["
Backslash    == 92     \* "\\"
CloseBracket == 93     \* "]"

\* The characters c with c.isspace(): what str.strip() removes and what \s
\* matches in a str pattern.  U+0009..U+000D, U+001C..U+0020, U+0085, U+00A0,
\* U+1680, U+2000..U+200A, U+2028, U+2029, U+202F, U+205F, U+3000.
Whitespace ==
    {9, 10, 11, 12, 13, 28, 29, 30, 31, 32, 133, 160, 5760, 8192, 8193, 8194,
     8195, 8196, 8197, 8198, 8199, 8200, 8201, 8202, 8232, 8233, 8239, 8287,
     12288}

\* The ranges of code points c with c.isalnum() or c = "_" (Unicode 14.0, the
\* character database of the Python 3.11 that runs the program).
WordRanges ==
    { <<48, 57>>, <<65, 90>>, <<95, 95>>, <<97, 122>>, <<170, 170>>,
      <<178, 179>>, <<181, 181>>, <<185, 186>>, <<188, 190>>, <<192, 214>>,
      <<216, 246>>, <<248, 705>>, <<710, 721>>, <<736, 740>>, <<748, 748>>,
      <<750, 750>>, <<880, 884>>, <<886, 887>>, <<890, 893>>, <<895, 895>>,
      <<902, 902>>, <<904, 906>>, <<908, 908>>, <<910, 929>>, <<931, 1013>>,
      <<1015, 1153>>, <<1162, 1327>>, <<1329, 1366>>, <<1369, 1369>>,
      <<1376, 1416>>, <<1488, 1514>>, <<1519, 1522>>, <<1568, 1610>>,
      <<1632, 1641>>, <<1646, 1647>>, <<1649, 1747>>, <<1749, 1749>>,
      <<1765, 1766>>, <<1774, 1788>>, <<1791, 1791>>, <<1808, 1808>>,
      <<1810, 1839>>, <<1869, 1957>>, <<1969, 1969>>, <<1984, 2026>>,
      <<2036, 2037>>, <<2042, 2042>>, <<2048, 2069>>, <<2074, 2074>>,
      <<2084, 2084>>, <<2088, 2088>>, <<2112, 2136>>, <<2144, 2154>>,
      <<2160, 2183>>, <<2185, 2190>>, <<2208, 2249>>, <<2308, 2361>>,
      <<2365, 2365>>, <<2384, 2384>>, <<2392, 2401>>, <<2406, 2415>>,
      <<2417, 2432>>, <<2437, 2444>>, <<2447, 2448>>, <<2451, 2472>>,
      <<2474, 2480>>, <<2482, 2482>>, <<2486, 2489>>, <<2493, 2493>>,
      <<2510, 2510>>, <<2524, 2525>>, <<2527, 2529>>, <<2534, 2545>>,
      <<2548, 2553>>, <<2556, 2556>>, <<2565, 2570>>, <<2575, 2576>>,
      <<2579, 2600>>, <<2602, 2608>>, <<2610, 2611>>, <<2613, 2614>>,
      <<2616, 2617>>, <<2649, 2652>>, <<2654, 2654>>, <<2662, 2671>>,
      <<2674, 2676>>, <<2693, 2701>>, <<2703, 2705>>, <<2707, 2728>>,
      <<2730, 2736>>, <<2738, 2739>>, <<2741, 2745>>, <<2749, 2749>>,
      <<2768, 2768>>, <<2784, 2785>>, <<2790, 2799>>, <<2809, 2809>>,
      <<2821, 2828>>, <<2831, 2832>>, <<2835, 2856>>, <<2858, 2864>>,
      <<2866, 2867>>, <<2869, 2873>>, <<2877, 2877>>, <<2908, 2909>>,
      <<2911, 2913>>, <<2918, 2927>>, <<2929, 2935>>, <<2947, 2947>>,
      <<2949, 2954>>, <<2958, 2960>>, <<2962, 2965>>, <<2969, 2970>>,
      <<2972, 2972>>, <<2974, 2975>>, <<2979, 2980>>, <<2984, 2986>>,
      <<2990, 3001>>, <<3024, 3024>>, <<3046, 3058>>, <<3077, 3084>>,
      <<3086, 3088>>, <<3090, 3112>>, <<3114, 3129>>, <<3133, 3133>>,
      <<3160, 3162>>, <<3165, 3165>>, <<3168, 3169>>, <<3174, 3183>>,
      <<3192, 3198>>, <<3200, 3200>>, <<3205, 3212>>, <<3214, 3216>>,
      <<3218, 3240>>, <<3242, 3251>>, <<3253, 3257>>, <<3261, 3261>>,
      <<3293, 3294>>, <<3296, 3297>>, <<3302, 3311>>, <<3313, 3314>>,
      <<3332, 3340>>, <<3342, 3344>>, <<3346, 3386>>, <<3389, 3389>>,
      <<3406, 3406>>, <<3412, 3414>>, <<3416, 3425>>, <<3430, 3448>>,
      <<3450, 3455>>, <<3461, 3478>>, <<3482, 3505>>, <<3507, 3515>>,
      <<3517, 3517>>, <<3520, 3526>>, <<3558, 3567>>, <<3585, 3632>>,
      <<3634, 3635>>, <<3648, 3654>>, <<3664, 3673>>, <<3713, 3714>>,
      <<3716, 3716>>, <<3718, 3722>>, <<3724, 3747>>, <<3749, 3749>>,
      <<3751, 3760>>, <<3762, 3763>>, <<3773, 3773>>, <<3776, 3780>>,
      <<3782, 3782>>, <<3792, 3801>>, <<3804, 3807>>, <<3840, 3840>>,
      <<3872, 3891>>, <<3904, 3911>>, <<3913, 3948>>, <<3976, 3980>>,
      <<4096, 4138>>, <<4159, 4169>>, <<4176, 4181>>, <<4186, 4189>>,
      <<4193, 4193>>, <<4197, 4198>>, <<4206, 4208>>, <<4213, 4225>>,
      <<4238, 4238>>, <<4240, 4249>>, <<4256, 4293>>, <<4295, 4295>>,
      <<4301, 4301>>, <<4304, 4346>>, <<4348, 4680>>, <<4682, 4685>>,
      <<4688, 4694>>, <<4696, 4696>>, <<4698, 4701>>, <<4704, 4744>>,
      <<4746, 4749>>, <<4752, 4784>>, <<4786, 4789>>, <<4792, 4798>>,
      <<4800, 4800>>, <<4802, 4805>>, <<4808, 4822>>, <<4824, 4880>>,
      <<4882, 4885>>, <<4888, 4954>>, <<4969, 4988>>, <<4992, 5007>>,
      <<5024, 5109>>, <<5112, 5117>>, <<5121, 5740>>, <<5743, 5759>>,
      <<5761, 5786>>, <<5792, 5866>>, <<5870, 5880>>, <<5888, 5905>>,
      <<5919, 5937>>, <<5952, 5969>>, <<5984, 5996>>, <<5998, 6000>>,
      <<6016, 6067>>, <<6103, 6103>>, <<6108, 6108>>, <<6112, 6121>>,
      <<6128, 6137>>, <<6160, 6169>>, <<6176, 6264>>, <<6272, 6276>>,
      <<6279, 6312>>, <<6314, 6314>>, <<6320, 6389>>, <<6400, 6430>>,
      <<6470, 6509>>, <<6512, 6516>>, <<6528, 6571>>, <<6576, 6601>>,
      <<6608, 6618>>, <<6656, 6678>>, <<6688, 6740>>, <<6784, 6793>>,
      <<6800, 6809>>, <<6823, 6823>>, <<6917, 6963>>, <<6981, 6988>>,
      <<6992, 7001>>, <<7043, 7072>>, <<7086, 7141>>, <<7168, 7203>>,
      <<7232, 7241>>, <<7245, 7293>>, <<7296, 7304>>, <<7312, 7354>>,
      <<7357, 7359>>, <<7401, 7404>>, <<7406, 7411>>, <<7413, 7414>>,
      <<7418, 7418>>, <<7424, 7615>>, <<7680, 7957>>, <<7960, 7965>>,
      <<7968, 8005>>, <<8008, 8013>>, <<8016, 8023>>, <<8025, 8025>>,
      <<8027, 8027>>, <<8029, 8029>>, <<8031, 8061>>, <<8064, 8116>>,
      <<8118, 8124>>, <<8126, 8126>>, <<8130, 8132>>, <<8134, 8140>>,
      <<8144, 8147>>, <<8150, 8155>>, <<8160, 8172>>, <<8178, 8180>>,
      <<8182, 8188>>, <<8304, 8305>>, <<8308, 8313>>, <<8319, 8329>>,
      <<8336, 8348>>, <<8450, 8450>>, <<8455, 8455>>, <<8458, 8467>>,
      <<8469, 8469>>, <<8473, 8477>>, <<8484, 8484>>, <<8486, 8486>>,
      <<8488, 8488>>, <<8490, 8493>>, <<8495, 8505>>, <<8508, 8511>>,
      <<8517, 8521>>, <<8526, 8526>>, <<8528, 8585>>, <<9312, 9371>>,
      <<9450, 9471>>, <<10102, 10131>>, <<11264, 11492>>, <<11499, 11502>>,
      <<11506, 11507>>, <<11517, 11517>>, <<11520, 11557>>, <<11559, 11559>>,
      <<11565, 11565>>, <<11568, 11623>>, <<11631, 11631>>, <<11648, 11670>>,
      <<11680, 11686>>, <<11688, 11694>>, <<11696, 11702>>, <<11704, 11710>>,
      <<11712, 11718>>, <<11720, 11726>>, <<11728, 11734>>, <<11736, 11742>>,
      <<11823, 11823>>, <<12293, 12295>>, <<12321, 12329>>, <<12337, 12341>>,
      <<12344, 12348>>, <<12353, 12438>>, <<12445, 12447>>, <<12449, 12538>>,
      <<12540, 12543>>, <<12549, 12591>>, <<12593, 12686>>, <<12690, 12693>>,
      <<12704, 12735>>, <<12784, 12799>>, <<12832, 12841>>, <<12872, 12879>>,
      <<12881, 12895>>, <<12928, 12937>>, <<12977, 12991>>, <<13312, 19903>>,
      <<19968, 42124>>, <<42192, 42237>>, <<42240, 42508>>, <<42512, 42539>>,
      <<42560, 42606>>, <<42623, 42653>>, <<42656, 42735>>, <<42775, 42783>>,
      <<42786, 42888>>, <<42891, 42954>>, <<42960, 42961>>, <<42963, 42963>>,
      <<42965, 42969>>, <<42994, 43009>>, <<43011, 43013>>, <<43015, 43018>>,
      <<43020, 43042>>, <<43056, 43061>>, <<43072, 43123>>, <<43138, 43187>>,
      <<43216, 43225>>, <<43250, 43255>>, <<43259, 43259>>, <<43261, 43262>>,
      <<43264, 43301>>, <<43312, 43334>>, <<43360, 43388>>, <<43396, 43442>>,
      <<43471, 43481>>, <<43488, 43492>>, <<43494, 43518>>, <<43520, 43560>>,
      <<43584, 43586>>, <<43588, 43595>>, <<43600, 43609>>, <<43616, 43638>>,
      <<43642, 43642>>, <<43646, 43695>>, <<43697, 43697>>, <<43701, 43702>>,
      <<43705, 43709>>, <<43712, 43712>>, <<43714, 43714>>, <<43739, 43741>>,
      <<43744, 43754>>, <<43762, 43764>>, <<43777, 43782>>, <<43785, 43790>>,
      <<43793, 43798>>, <<43808, 43814>>, <<43816, 43822>>, <<43824, 43866>>,
      <<43868, 43881>>, <<43888, 44002>>, <<44016, 44025>>, <<44032, 55203>>,
      <<55216, 55238>>, <<55243, 55291>>, <<63744, 64109>>, <<64112, 64217>>,
      <<64256, 64262>>, <<64275, 64279>>, <<64285, 64285>>, <<64287, 64296>>,
      <<64298, 64310>>, <<64312, 64316>>, <<64318, 64318>>, <<64320, 64321>>,
      <<64323, 64324>>, <<64326, 64433>>, <<64467, 64829>>, <<64848, 64911>>,
      <<64914, 64967>>, <<65008, 65019>>, <<65136, 65140>>, <<65142, 65276>>,
      <<65296, 65305>>, <<65313, 65338>>, <<65345, 65370>>, <<65382, 65470>>,
      <<65474, 65479>>, <<65482, 65487>>, <<65490, 65495>>, <<65498, 65500>>,
      <<65536, 65547>>, <<65549, 65574>>, <<65576, 65594>>, <<65596, 65597>>,
      <<65599, 65613>>, <<65616, 65629>>, <<65664, 65786>>, <<65799, 65843>>,
      <<65856, 65912>>, <<65930, 65931>>, <<66176, 66204>>, <<66208, 66256>>,
      <<66273, 66299>>, <<66304, 66339>>, <<66349, 66378>>, <<66384, 66421>>,
      <<66432, 66461>>, <<66464, 66499>>, <<66504, 66511>>, <<66513, 66517>>,
      <<66560, 66717>>, <<66720, 66729>>, <<66736, 66771>>, <<66776, 66811>>,
      <<66816, 66855>>, <<66864, 66915>>, <<66928, 66938>>, <<66940, 66954>>,
      <<66956, 66962>>, <<66964, 66965>>, <<66967, 66977>>, <<66979, 66993>>,
      <<66995, 67001>>, <<67003, 67004>>, <<67072, 67382>>, <<67392, 67413>>,
      <<67424, 67431>>, <<67456, 67461>>, <<67463, 67504>>, <<67506, 67514>>,
      <<67584, 67589>>, <<67592, 67592>>, <<67594, 67637>>, <<67639, 67640>>,
      <<67644, 67644>>, <<67647, 67669>>, <<67672, 67702>>, <<67705, 67742>>,
      <<67751, 67759>>, <<67808, 67826>>, <<67828, 67829>>, <<67835, 67867>>,
      <<67872, 67897>>, <<67968, 68023>>, <<68028, 68047>>, <<68050, 68096>>,
      <<68112, 68115>>, <<68117, 68119>>, <<68121, 68149>>, <<68160, 68168>>,
      <<68192, 68222>>, <<68224, 68255>>, <<68288, 68295>>, <<68297, 68324>>,
      <<68331, 68335>>, <<68352, 68405>>, <<68416, 68437>>, <<68440, 68466>>,
      <<68472, 68497>>, <<68521, 68527>>, <<68608, 68680>>, <<68736, 68786>>,
      <<68800, 68850>>, <<68858, 68899>>, <<68912, 68921>>, <<69216, 69246>>,
      <<69248, 69289>>, <<69296, 69297>>, <<69376, 69415>>, <<69424, 69445>>,
      <<69457, 69460>>, <<69488, 69505>>, <<69552, 69579>>, <<69600, 69622>>,
      <<69635, 69687>>, <<69714, 69743>>, <<69745, 69746>>, <<69749, 69749>>,
      <<69763, 69807>>, <<69840, 69864>>, <<69872, 69881>>, <<69891, 69926>>,
      <<69942, 69951>>, <<69956, 69956>>, <<69959, 69959>>, <<69968, 70002>>,
      <<70006, 70006>>, <<70019, 70066>>, <<70081, 70084>>, <<70096, 70106>>,
      <<70108, 70108>>, <<70113, 70132>>, <<70144, 70161>>, <<70163, 70187>>,
      <<70272, 70278>>, <<70280, 70280>>, <<70282, 70285>>, <<70287, 70301>>,
      <<70303, 70312>>, <<70320, 70366>>, <<70384, 70393>>, <<70405, 70412>>,
      <<70415, 70416>>, <<70419, 70440>>, <<70442, 70448>>, <<70450, 70451>>,
      <<70453, 70457>>, <<70461, 70461>>, <<70480, 70480>>, <<70493, 70497>>,
      <<70656, 70708>>, <<70727, 70730>>, <<70736, 70745>>, <<70751, 70753>>,
      <<70784, 70831>>, <<70852, 70853>>, <<70855, 70855>>, <<70864, 70873>>,
      <<71040, 71086>>, <<71128, 71131>>, <<71168, 71215>>, <<71236, 71236>>,
      <<71248, 71257>>, <<71296, 71338>>, <<71352, 71352>>, <<71360, 71369>>,
      <<71424, 71450>>, <<71472, 71483>>, <<71488, 71494>>, <<71680, 71723>>,
      <<71840, 71922>>, <<71935, 71942>>, <<71945, 71945>>, <<71948, 71955>>,
      <<71957, 71958>>, <<71960, 71983>>, <<71999, 71999>>, <<72001, 72001>>,
      <<72016, 72025>>, <<72096, 72103>>, <<72106, 72144>>, <<72161, 72161>>,
      <<72163, 72163>>, <<72192, 72192>>, <<72203, 72242>>, <<72250, 72250>>,
      <<72272, 72272>>, <<72284, 72329>>, <<72349, 72349>>, <<72368, 72440>>,
      <<72704, 72712>>, <<72714, 72750>>, <<72768, 72768>>, <<72784, 72812>>,
      <<72818, 72847>>, <<72960, 72966>>, <<72968, 72969>>, <<72971, 73008>>,
      <<73030, 73030>>, <<73040, 73049>>, <<73056, 73061>>, <<73063, 73064>>,
      <<73066, 73097>>, <<73112, 73112>>, <<73120, 73129>>, <<73440, 73458>>,
      <<73648, 73648>>, <<73664, 73684>>, <<73728, 74649>>, <<74752, 74862>>,
      <<74880, 75075>>, <<77712, 77808>>, <<77824, 78894>>, <<82944, 83526>>,
      <<92160, 92728>>, <<92736, 92766>>, <<92768, 92777>>, <<92784, 92862>>,
      <<92864, 92873>>, <<92880, 92909>>, <<92928, 92975>>, <<92992, 92995>>,
      <<93008, 93017>>, <<93019, 93025>>, <<93027, 93047>>, <<93053, 93071>>,
      <<93760, 93846>>, <<93952, 94026>>, <<94032, 94032>>, <<94099, 94111>>,
      <<94176, 94177>>, <<94179, 94179>>, <<94208, 100343>>,
      <<100352, 101589>>, <<101632, 101640>>, <<110576, 110579>>,
      <<110581, 110587>>, <<110589, 110590>>, <<110592, 110882>>,
      <<110928, 110930>>, <<110948, 110951>>, <<110960, 111355>>,
      <<113664, 113770>>, <<113776, 113788>>, <<113792, 113800>>,
      <<113808, 113817>>, <<119520, 119539>>, <<119648, 119672>>,
      <<119808, 119892>>, <<119894, 119964>>, <<119966, 119967>>,
      <<119970, 119970>>, <<119973, 119974>>, <<119977, 119980>>,
      <<119982, 119993>>, <<119995, 119995>>, <<119997, 120003>>,
      <<120005, 120069>>, <<120071, 120074>>, <<120077, 120084>>,
      <<120086, 120092>>, <<120094, 120121>>, <<120123, 120126>>,
      <<120128, 120132>>, <<120134, 120134>>, <<120138, 120144>>,
      <<120146, 120485>>, <<120488, 120512>>, <<120514, 120538>>,
      <<120540, 120570>>, <<120572, 120596>>, <<120598, 120628>>,
      <<120630, 120654>>, <<120656, 120686>>, <<120688, 120712>>,
      <<120714, 120744>>, <<120746, 120770>>, <<120772, 120779>>,
      <<120782, 120831>>, <<122624, 122654>>, <<123136, 123180>>,
      <<123191, 123197>>, <<123200, 123209>>, <<123214, 123214>>,
      <<123536, 123565>>, <<123584, 123627>>, <<123632, 123641>>,
      <<124896, 124902>>, <<124904, 124907>>, <<124909, 124910>>,
      <<124912, 124926>>, <<124928, 125124>>, <<125127, 125135>>,
      <<125184, 125251>>, <<125259, 125259>>, <<125264, 125273>>,
      <<126065, 126123>>, <<126125, 126127>>, <<126129, 126132>>,
      <<126209, 126253>>, <<126255, 126269>>, <<126464, 126467>>,
      <<126469, 126495>>, <<126497, 126498>>, <<126500, 126500>>,
      <<126503, 126503>>, <<126505, 126514>>, <<126516, 126519>>,
      <<126521, 126521>>, <<126523, 126523>>, <<126530, 126530>>,
      <<126535, 126535>>, <<126537, 126537>>, <<126539, 126539>>,
      <<126541, 126543>>, <<126545, 126546>>, <<126548, 126548>>,
      <<126551, 126551>>, <<126553, 126553>>, <<126555, 126555>>,
      <<126557, 126557>>, <<126559, 126559>>, <<126561, 126562>>,
      <<126564, 126564>>, <<126567, 126570>>, <<126572, 126578>>,
      <<126580, 126583>>, <<126585, 126588>>, <<126590, 126590>>,
      <<126592, 126601>>, <<126603, 126619>>, <<126625, 126627>>,
      <<126629, 126633>>, <<126635, 126651>>, <<127232, 127244>>,
      <<130032, 130041>>, <<131072, 173791>>, <<173824, 177976>>,
      <<177984, 178205>>, <<178208, 183969>>, <<183984, 191456>>,
      <<194560, 195101>>, <<196608, 201546>> }

\* What \w matches in a str pattern.
WordChars == UNION { r[1]..r[2] : r \in WordRanges }

\* The part of s that "." can consume and before whose end "$" matches:
\* s without one trailing newline.
Body(s) ==
    IF Len(s) > 0 /\ s[Len(s)] = Newline THEN SubSeq(s, 1, Len(s) - 1) ELSE s

\* Length of the longest prefix of s made of characters of set cs (greedy X*).
Run(s, cs) ==
    CHOOSE k \in 0..Len(s) :
        /\ \A i \in 1..k : s[i] \in cs
        /\ k = Len(s) \/ s[k + 1] \notin cs

\* s from its (1-based) position p on.
From(s, p) == SubSeq(s, p, Len(s))

\* "\t" * n
Tabs(n) == [i \in 1..n |-> Tab]

\* line.strip() is truthy
NonBlank(line) == \E i \in 1..Len(line) : line[i] \notin Whitespace

\* len(line.replace("\\", ""))
StripLen(line) == Len(SelectSeq(line, LAMBDA c : c # Backslash))

----------------------------------------------------------------------------
\* REGEX["footer"] without its "$": ^-+
FooterMatch_Unanchored(line) ==
    LET b == Body(line) IN Len(b) >= 1 /\ b[1] = Hyphen

\* REGEX["footer"] = ^-+$
FooterMatch(line) ==
    LET b == Body(line) IN Len(b) >= 1 /\ \A i \in 1..Len(b) : b[i] = Hyphen

\* Number of consecutive "[ ]" groups of s starting at position p: (\[ \])*
RECURSIVE BoxReps(_, _)
BoxReps(s, p) ==
    IF /\ p + 2 <= Len(s)
       /\ s[p] = OpenBracket /\ s[p + 1] = Space /\ s[p + 2] = CloseBracket
    THEN 1 + BoxReps(s, p + 3)
    ELSE 0

\* REGEX["list"] = ^(\s*)[-*] (\[ \])*(.*)$
ListMatch(line) ==
    LET b == Body(line)
        w == Run(b, Whitespace)
    IN  Len(b) >= w + 2 /\ b[w + 1] \in {Hyphen, Asterisk} /\ b[w + 2] = Space

\* match.groups() of REGEX["list"], for a line that matches
ListGroups(line) ==
    LET b == Body(line)
        w == Run(b, Whitespace)
        k == BoxReps(b, w + 3)
    IN  [indent_spaces |-> SubSeq(b, 1, w),
         is_checkbox   |-> k >= 1,
         text          |-> From(b, w + 3 + 3 * k)]

\* REGEX["heading"] = ^(#+)\s(.*)$
HeadingMatch(line) ==
    LET h == Run(line, {Hash})
    IN  h >= 1 /\ Len(line) > h /\ line[h + 1] \in Whitespace

\* match.groups() of REGEX["heading"], for a line that matches
HeadingGroups(line) ==
    LET h == Run(line, {Hash})
    IN  [level |-> SubSeq(line, 1, h), text |-> Body(From(line, h + 2))]

\* REGEX["tag"] = (\@\w*): anchored at position p of line
TagAt(line, p) ==
    /\ line[p] = At
    /\ LET e == p + 1 + Run(From(line, p + 1), WordChars)
       IN  e <= Len(line) /\ line[e] = Colon

TagMatch(line) == \E p \in 1..Len(line) : TagAt(line, p)

\* match.start() and match.end() of REGEX["tag"] (0-based, end exclusive)
TagSpan(line) ==
    LET p == CHOOSE q \in 1..Len(line) :
                 TagAt(line, q) /\ \A r \in 1..(q - 1) : ~TagAt(line, r)
    IN  [start |-> p - 1,
         end   |-> p + 1 + Run(From(line, p + 1), WordChars)]

----------------------------------------------------------------------------
\* The requests the parser emits.

InsertText(i, text) == [op |-> "insertText", index |-> i, text |-> text]

UpdateParagraphStyle(s, e, level) ==
    [op |-> "updateParagraphStyle", startIndex |-> s, endIndex |-> e,
     namedStyleType |-> "HEADING_" \o ToString(level)]

UpdateTextStyle(s, e) ==
    [op |-> "updateTextStyle", startIndex |-> s, endIndex |-> e, bold |-> TRUE]

CreateParagraphBullets(s, e, type) ==
    [op |-> "createParagraphBullets", startIndex |-> s, endIndex |-> e,
     bulletPreset |-> "BULLET_" \o type]

----------------------------------------------------------------------------
\* The methods of MarkdownParser, on the record st of the object's fields.

Self == [index |-> index, mode |-> mode, list_start |-> list_start,
         indents |-> indents, list_type |-> list_type, requests |-> requests]

\* _end_list that takes one unit more than the indents off the cursor
_end_list_OneMore(st) ==
    [st EXCEPT !.requests = Append(st.requests,
                   CreateParagraphBullets(st.list_start, st.index,
                                          st.list_type)),
               !.index = st.index - st.indents - 1,
               !.mode = "NONE",
               !.list_start = 0,
               !.indents = 0]

\* _end_list that leaves list_start and indents as they are
_end_list_NoReset(st) ==
    [st EXCEPT !.requests = Append(st.requests,
                   CreateParagraphBullets(st.list_start, st.index,
                                          st.list_type)),
               !.index = st.index - st.indents,
               !.mode = "NONE"]

_end_list(st) ==
    [st EXCEPT !.requests = Append(st.requests,
                   CreateParagraphBullets(st.list_start, st.index,
                                          st.list_type)),
               !.index = st.index - st.indents,
               !.mode = "NONE",
               !.list_start = 0,
               !.indents = 0]

\* _check_footer that does not close an open list
_check_footer_NoClose(st, line) ==
    IF ~FooterMatch(line)
    THEN [st |-> st, ret |-> FALSE]
    ELSE [st |-> [st EXCEPT !.mode = "FOOTER"], ret |-> TRUE]

\* returns [st, ret]
_check_footer(st, line) ==
    IF ~FooterMatch(line)
    THEN [st |-> st, ret |-> FALSE]
    ELSE LET s1 == IF st.mode = "LIST" THEN _end_list(st) ELSE st
         IN  [st |-> [s1 EXCEPT !.mode = "FOOTER"], ret |-> TRUE]

\* _parse_list_item that records list_start on every list line
_parse_list_item_Restart(st, line) ==
    IF ~ListMatch(line)
    THEN [st |-> IF st.mode = "LIST" THEN _end_list(st) ELSE st, line |-> line]
    ELSE LET g  == ListGroups(line)
             s1 == [st EXCEPT !.list_start = st.index,
                              !.mode = "LIST",
                              !.list_type =
                                  IF g.is_checkbox THEN "CHECKBOX"
                                  ELSE "DISC_CIRCLE_SQUARE"]
             indent_level == Len(g.indent_spaces) \div 2
             text == Tabs(indent_level) \o g.text \o <<Newline>>
         IN  [st |-> [s1 EXCEPT !.indents = s1.indents + indent_level,
                                !.requests = Append(s1.requests,
                                                InsertText(s1.index, text))],
              line |-> text]

\* _parse_list_item that returns the raw line instead of the rewritten text
_parse_list_item_ReturnRaw(st, line) ==
    IF ~ListMatch(line)
    THEN [st |-> IF st.mode = "LIST" THEN _end_list(st) ELSE st, line |-> line]
    ELSE LET g  == ListGroups(line)
             s1 == IF st.mode # "LIST"
                   THEN [st EXCEPT !.list_start = st.index,
                                   !.mode = "LIST",
                                   !.list_type =
                                       IF g.is_checkbox THEN "CHECKBOX"
                                       ELSE "DISC_CIRCLE_SQUARE"]
                   ELSE st
             indent_level == Len(g.indent_spaces) \div 2
             text == Tabs(indent_level) \o g.text \o <<Newline>>
         IN  [st |-> [s1 EXCEPT !.indents = s1.indents + indent_level,
                                !.requests = Append(s1.requests,
                                                InsertText(s1.index, text))],
              line |-> line]

\* _parse_list_item that sets list_type from every list line
_parse_list_item_TypePerLine(st, line) ==
    IF ~ListMatch(line)
    THEN [st |-> IF st.mode = "LIST" THEN _end_list(st) ELSE st, line |-> line]
    ELSE LET g  == ListGroups(line)
             s0 == IF st.mode # "LIST"
                   THEN [st EXCEPT !.list_start = st.index, !.mode = "LIST"]
                   ELSE st
             s1 == [s0 EXCEPT !.list_type =
                                  IF g.is_checkbox THEN "CHECKBOX"
                                  ELSE "DISC_CIRCLE_SQUARE"]
             indent_level == Len(g.indent_spaces) \div 2
             text == Tabs(indent_level) \o g.text \o <<Newline>>
         IN  [st |-> [s1 EXCEPT !.indents = s1.indents + indent_level,
                                !.requests = Append(s1.requests,
                                                InsertText(s1.index, text))],
              line |-> text]

\* _parse_list_item that adds the number of leading blanks to indents
_parse_list_item_RawIndent(st, line) ==
    IF ~ListMatch(line)
    THEN [st |-> IF st.mode = "LIST" THEN _end_list(st) ELSE st, line |-> line]
    ELSE LET g  == ListGroups(line)
             s1 == IF st.mode # "LIST"
                   THEN [st EXCEPT !.list_start = st.index,
                                   !.mode = "LIST",
                                   !.list_type =
                                       IF g.is_checkbox THEN "CHECKBOX"
                                       ELSE "DISC_CIRCLE_SQUARE"]
                   ELSE st
             indent_level == Len(g.indent_spaces) \div 2
             text == Tabs(indent_level) \o g.text \o <<Newline>>
         IN  [st |-> [s1 EXCEPT !.indents = s1.indents + Len(g.indent_spaces),
                                !.requests = Append(s1.requests,
                                                InsertText(s1.index, text))],
              line |-> text]

\* returns [st, line]
_parse_list_item(st, line) ==
    IF ~ListMatch(line)
    THEN [st |-> IF st.mode = "LIST" THEN _end_list(st) ELSE st, line |-> line]
    ELSE LET g  == ListGroups(line)
             s1 == IF st.mode # "LIST"
                   THEN [st EXCEPT !.list_start = st.index,
                                   !.mode = "LIST",
                                   !.list_type =
                                       IF g.is_checkbox THEN "CHECKBOX"
                                       ELSE "DISC_CIRCLE_SQUARE"]
                   ELSE st
             indent_level == Len(g.indent_spaces) \div 2
             text == Tabs(indent_level) \o g.text \o <<Newline>>
         IN  [st |-> [s1 EXCEPT !.indents = s1.indents + indent_level,
                                !.requests = Append(s1.requests,
                                                InsertText(s1.index, text))],
              line |-> text]

\* _parse_heading without its self.index += 1
_parse_heading_NoAdvance(st, line) ==
    IF ~HeadingMatch(line)
    THEN [st |-> st, line |-> line]
    ELSE LET g == HeadingGroups(line)
             level == Len(g.level)
         IN  [st |-> [st EXCEPT
                        !.requests = st.requests \o
                            <<InsertText(st.index, g.text \o <<Newline>>),
                              UpdateParagraphStyle(st.index,
                                  st.index + Len(g.text), level)>>],
              line |-> g.text]

\* returns [st, line]
_parse_heading(st, line) ==
    IF ~HeadingMatch(line)
    THEN [st |-> st, line |-> line]
    ELSE LET g == HeadingGroups(line)
             level == Len(g.level)
         IN  [st |-> [st EXCEPT
                        !.requests = st.requests \o
                            <<InsertText(st.index, g.text \o <<Newline>>),
                              UpdateParagraphStyle(st.index,
                                  st.index + Len(g.text), level)>>,
                        !.index = st.index + 1],
              line |-> g.text]

\* returns st (the boolean result is unused by the caller)
_parse_tag(st, line) ==
    IF ~TagMatch(line)
    THEN st
    ELSE LET m == TagSpan(line)
         IN  [st EXCEPT !.requests = Append(st.requests,
                            UpdateTextStyle(st.index + m.start,
                                            st.index + m.end - 1))]

\* _parse_line that advances by len(line), backslashes included
_parse_line_NoReplace(st, line) ==
    LET f == _check_footer(st, line)
    IN  IF f.ret THEN f.st
        ELSE LET l == _parse_list_item(f.st, line)
                 h == _parse_heading(l.st, l.line)
                 t == _parse_tag(h.st, h.line)
             IN  [t EXCEPT !.index = t.index + Len(h.line)]

\* _parse_line with self.index -= in place of self.index +=
_parse_line_Minus(st, line) ==
    LET f == _check_footer(st, line)
    IN  IF f.ret THEN f.st
        ELSE LET l == _parse_list_item(f.st, line)
                 h == _parse_heading(l.st, l.line)
                 t == _parse_tag(h.st, h.line)
             IN  [t EXCEPT !.index = t.index - StripLen(h.line)]

_parse_line(st, line) ==
    LET f == _check_footer(st, line)
    IN  IF f.ret THEN f.st
        ELSE LET l == _parse_list_item(f.st, line)
                 h == _parse_heading(l.st, l.line)
                 t == _parse_tag(h.st, h.line)
             IN  [t EXCEPT !.index = t.index + StripLen(h.line)]

\* parse_file whose loop parses the lines of the footer as well
parse_file_ParseFooter(st, footer, line) ==
    IF NonBlank(line)
    THEN IF st.mode = "FOOTER"
         THEN [st |-> _parse_line(st, line), footer_text |-> footer \o line]
         ELSE [st |-> _parse_line(st, line), footer_text |-> footer]
    ELSE [st |-> st, footer_text |-> footer]

\* parse_file whose loop keeps the blank lines of the footer
parse_file_KeepBlank(st, footer, line) ==
    IF st.mode = "FOOTER"
    THEN [st |-> st, footer_text |-> footer \o line]
    ELSE IF NonBlank(line)
         THEN [st |-> _parse_line(st, line), footer_text |-> footer]
         ELSE [st |-> st, footer_text |-> footer]

\* parse_file whose loop does not test line.strip()
parse_file_NoStrip(st, footer, line) ==
    IF st.mode = "FOOTER"
    THEN [st |-> st, footer_text |-> footer \o line]
    ELSE [st |-> _parse_line(st, line), footer_text |-> footer]

\* The body of the loop of parse_file; returns [st, footer_text]
parse_file(st, footer, line) ==
    IF NonBlank(line)
    THEN IF st.mode = "FOOTER"
         THEN [st |-> st, footer_text |-> footer \o line]
         ELSE [st |-> _parse_line(st, line), footer_text |-> footer]
    ELSE [st |-> st, footer_text |-> footer]

----------------------------------------------------------------------------
\* Input lines.

NL == <<Newline>>

Lines ==
    { NL,                                       \* blank
      Str("-\n"),                               \* one hyphen
      Str("---\n"),                             \* three hyphens
      Str("--- \n"),                            \* hyphens, trailing space
      Str("- a\n"),                             \* list item
      Str("* @") \o <<233>> \o Str(":\n"),      \* list item, tag @ U+00E9 :
      <<8195>> \o Str(" - \n"),                 \* empty item, indent U+2003 " "
      Str("     * \\c\n"),                      \* indent 2
      Str("- [ ] a\n"),                         \* checkbox item
      Str("- # t\n"),                           \* list item, heading text
      Str("# Title\n"),                         \* heading
      Str("## @t:\\\n"),                        \* heading, tag, escape
      Str("Goodbye\n"),                         \* plain
      Str("note: @urgent: call\n"),             \* plain with tag
      Str("\\\\\n") }                           \* escapes only

\* A file's last line may lack the newline.
LastLines ==
    { <<11>>,                                   \* blank: U+000B
      Str("-"),
      Str("- a"),
      Str("## @t:\\"),
      Str("Goodbye"),
      Str("\\\\@a:"),
      Str("\\\\") }

----------------------------------------------------------------------------
Init ==
    /\ index = 1
    /\ mode = "NONE"
    /\ list_start = 0
    /\ indents = 0
    /\ list_type = ""
    /\ footer_text = <<>>
    /\ requests = <<>>
    /\ pc = "reading"
    /\ lines = <<>>
    /\ pre = [index |-> 1, mode |-> "NONE", list_start |-> 0, indents |-> 0,
              list_type |-> "", requests |-> <<>>]
    /\ entered = <<>>

\* The fields of the object and the footer after the loop body has returned
\* r for the given line.
Assign(line, r) ==
    /\ lines' = Append(lines, line)
    /\ pre' = Self
    /\ index' = r.st.index
    /\ mode' = r.st.mode
    /\ list_start' = r.st.list_start
    /\ indents' = r.st.indents
    /\ list_type' = r.st.list_type
    /\ requests' = r.st.requests
    /\ footer_text' = r.footer_text
    /\ entered' = IF mode # "LIST" /\ r.st.mode = "LIST"
                  THEN Append(entered, index) ELSE entered

\* One iteration of the loop of parse_file on the given line.
Iterate(line) == Assign(line, parse_file(Self, footer_text, line))

\* for line in file: a line that ends with a newline
ReadLine ==
    /\ pc = "reading"
    /\ Len(lines) < MaxLines
    /\ \E line \in Lines : Iterate(line)
    /\ UNCHANGED pc

\* for line in file: the last line of a file that does not end with a newline
ReadLastLine ==
    /\ pc = "reading"
    /\ Len(lines) < MaxLines
    /\ \E line \in LastLines : Iterate(line)
    /\ pc' = "eof"

\* return self.requests, self.footer_text
Return ==
    /\ pc \in {"reading", "eof"}
    /\ pc' = "done"
    /\ UNCHANGED <<index, mode, list_start, indents, list_type, footer_text,
                   requests, lines, pre, entered>>

Next == ReadLine \/ ReadLastLine \/ Return

Spec == Init /\ [][Next]_vars

----------------------------------------------------------------------------
\* Vocabulary of the properties.  These definitions read the input (lines),
\* the fields before the last line (pre) and the fields after it; they do not
\* use the regular expressions of the parser.

LastLine == lines[Len(lines)]

\* The last line was handed to _parse_line.
Parsed == Len(lines) > 0 /\ NonBlank(LastLine) /\ pre.mode # "FOOTER"

\* The requests appended while the last line was processed.
Appended == SubSeq(requests, Len(pre.requests) + 1, Len(requests))

\* The line is n or more hyphens and nothing else but its line terminator.
HyphensOnly(line, n) ==
    LET b == Body(line) IN Len(b) >= n /\ \A i \in 1..Len(b) : b[i] = Hyphen

\* The line is a list line: leading whitespace, "-" or "*", a space.
IsListLine(line) ==
    \E w \in 0..Len(line) :
        /\ \A i \in 1..w : line[i] \in Whitespace
        /\ Len(Body(line)) >= w + 2
        /\ line[w + 1] \in {Hyphen, Asterisk}
        /\ line[w + 2] = Space

IsContentOp(r) == r.op \in {"insertText", "updateParagraphStyle",
                            "updateTextStyle"}

IsBullets(r) == r.op = "createParagraphBullets"

BulletOps == SelectSeq(requests, IsBullets)

\* The request by which the last line closes the list open before it, if it
\* is not a list line.
ClosePre ==
    IF pre.mode = "LIST" /\ ~IsListLine(LastLine)
    THEN <<CreateParagraphBullets(pre.list_start, pre.index, pre.list_type)>>
    ELSE <<>>

\* The cursor once the last line has closed the list open before it, if it
\* is not a list line.
CursorAfterClose ==
    IF pre.mode = "LIST" /\ ~IsListLine(LastLine)
    THEN pre.index - pre.indents
    ELSE pre.index

\* Position in ls of the first footer delimiter, 0 if there is none.
DelimiterPos(ls) ==
    IF \E i \in 1..Len(ls) : HyphensOnly(ls[i], 1)
    THEN CHOOSE i \in 1..Len(ls) :
             HyphensOnly(ls[i], 1) /\ \A j \in 1..(i - 1) : ~HyphensOnly(ls[j], 1)
    ELSE 0

\* The non-blank lines of ls, in order.
Content(ls) == SelectSeq(ls, NonBlank)

\* The concatenation of the strings of ls.
RECURSIVE Concat(_)
Concat(ls) == IF ls = <<>> THEN <<>> ELSE Head(ls) \o Concat(Tail(ls))

\* Number of maximal runs of list lines among the non-blank lines of ls.
NumRuns(ls) ==
    LET c == Content(ls)
    IN  Cardinality({ i \in 1..Len(c) :
            IsListLine(c[i]) /\ (i = 1 \/ ~IsListLine(c[i - 1])) })

\* The lines that precede the first footer delimiter.
BeforeFooter(ls) ==
    IF DelimiterPos(ls) = 0 THEN ls ELSE SubSeq(ls, 1, DelimiterPos(ls) - 1)

----------------------------------------------------------------------------
\* C1: when parse_file returns, the requests hold exactly one
\* createParagraphBullets for each maximal run of list lines of the input,
\* including a run that is still open when the input ends.
C1_OneBulletsPerRun ==
    pc = "done" => Len(BulletOps) = NumRuns(BeforeFooter(lines))

\* C2: when parse_file returns, every offset referenced by a request is at
\* most the final cursor.
C2_OffsetsWithinFinalCursor ==
    pc = "done" =>
        \A i \in 1..Len(requests) :
            IF requests[i].op = "insertText"
            THEN requests[i].index <= index
            ELSE requests[i].startIndex <= index /\ requests[i].endIndex <= index

\* C3 as stated: a non-blank line processed outside FOOTER switches the mode
\* to FOOTER if and only if it is three or more hyphens and nothing else.
C3_ThreeOrMoreHyphens ==
    Parsed => ((mode = "FOOTER") <=> HyphensOnly(LastLine, 3))

\* C3 amended: a non-blank line processed outside FOOTER switches the mode to
\* FOOTER if and only if it is one or more hyphens and nothing else; such a
\* line appends no content request and leaves the cursor where the close of
\* an open list puts it, without adding the line's length.
C3_OneOrMoreHyphens ==
    Parsed =>
        /\ (mode = "FOOTER") <=> HyphensOnly(LastLine, 1)
        /\ HyphensOnly(LastLine, 1) =>
              /\ \A i \in 1..Len(Appended) : ~IsContentOp(Appended[i])
              /\ index = CursorAfterClose

\* A list was open and a line of one or two hyphens has closed it and
\* started the footer.
C3_Witness ==
    /\ Parsed
    /\ pre.mode = "LIST"
    /\ HyphensOnly(LastLine, 1) /\ ~HyphensOnly(LastLine, 3)
    /\ mode = "FOOTER"

\* C4: once the mode is FOOTER it stays FOOTER, no request is appended and
\* the cursor, list_start and indents do not change.
C4_FooterTerminal ==
    [][mode = "FOOTER" =>
          /\ mode' = "FOOTER"
          /\ requests' = requests
          /\ index' = index
          /\ list_start' = list_start
          /\ indents' = indents]_vars

\* A hyphen-only line, a list line or a heading has been read after the
\* footer began.
C4_Witness ==
    /\ Len(lines) > 1
    /\ pre.mode = "FOOTER"
    /\ mode = "FOOTER"
    /\ \/ HyphensOnly(LastLine, 1)
       \/ IsListLine(LastLine)
       \/ LastLine[1] = Hash

\* The example of C5: "---", "Goodbye".
DelimiterLine == Str("---\n")

GoodbyeLine == Str("Goodbye\n")

\* The footer string that C5 describes: the non-blank lines after the first
\* delimiter, verbatim, in input order.
ExpectedFooter(ls) ==
    IF DelimiterPos(ls) = 0 THEN <<>>
    ELSE Concat(Content(SubSeq(ls, DelimiterPos(ls) + 1, Len(ls))))

\* C5 as stated: the footer is the concatenation of the non-blank lines after
\* the first delimiter, and no request is appended for the delimiter or for
\* any line after it.
C5_NoRequestForDelimiter ==
    /\ footer_text = ExpectedFooter(Content(lines))
    /\ (Len(lines) > 0 /\ mode = "FOOTER") => requests = pre.requests

\* C5 amended: the footer is the concatenation of the non-blank lines after
\* the first delimiter; no request is appended for a line after the
\* delimiter, and the only request appended for the delimiter is the
\* createParagraphBullets of the list it closes, if one was open.
C5_FooterText ==
    /\ footer_text = ExpectedFooter(Content(lines))
    /\ (Len(lines) > 0 /\ mode = "FOOTER") =>
          requests = pre.requests \o (IF Parsed THEN ClosePre ELSE <<>>)
    /\ lines = <<DelimiterLine, GoodbyeLine>> =>
          /\ footer_text = GoodbyeLine
          /\ requests = <<>>

\* Content, a delimiter, and then at least two footer lines, the last one
\* without a newline, with a blank line in between.
C5_Witness ==
    /\ pc = "eof"
    /\ DelimiterPos(lines) > 1
    /\ Len(lines) > DelimiterPos(lines) + 1
    /\ \E i \in 1..Len(lines) : i > DelimiterPos(lines) /\ ~NonBlank(lines[i])
    /\ Len(footer_text) > 0
    /\ Len(requests) > 0

\* The example of C6: "# Title", and the text inserted for it.
TitleLine == Str("# Title\n")

TitleText == Str("Title\n")

\* The line is n '#' characters, a space and a text.
IsHeadingOf(line, n) ==
    /\ n >= 1
    /\ Len(line) >= n + 1
    /\ \A i \in 1..n : line[i] = Hash
    /\ line[n + 1] = Space

\* C6: a heading line of n '#', a space and text t, whose heading check runs
\* at cursor c (the cursor left by the close of a list the line ends, if
\* any), appends InsertText(c, t + newline) immediately followed by
\* SetParagraphStyle([c, c + length(t)), "HEADING_n"), with no other request
\* than the close before them and the style of a tag after them, and leaves
\* the cursor at c + 1 + length(t without backslashes); "# Title" at cursor 1
\* gives InsertText(1, "Title\n"), SetParagraphStyle([1,6), "HEADING_1") and
\* cursor 7.
C6_Heading ==
    /\ Parsed =>
          \A n \in 1..Len(LastLine) :
              IsHeadingOf(LastLine, n) =>
                  LET t == Body(From(LastLine, n + 2))
                      c == CursorAfterClose
                      k == Len(ClosePre)
                  IN  /\ Len(Appended) \in {k + 2, k + 3}
                      /\ SubSeq(Appended, 1, k) = ClosePre
                      /\ Appended[k + 1] =
                             [op |-> "insertText", index |-> c,
                              text |-> t \o <<Newline>>]
                      /\ Appended[k + 2] =
                             [op |-> "updateParagraphStyle",
                              startIndex |-> c, endIndex |-> c + Len(t),
                              namedStyleType |-> "HEADING_" \o ToString(n)]
                      /\ Len(Appended) = k + 3 =>
                             Appended[k + 3].op = "updateTextStyle"
                      /\ index = c + 1 + StripLen(t)
    /\ lines = <<TitleLine>> =>
          /\ requests =
                << [op |-> "insertText", index |-> 1,
                    text |-> TitleText],
                   [op |-> "updateParagraphStyle", startIndex |-> 1,
                    endIndex |-> 6, namedStyleType |-> "HEADING_1"] >>
          /\ index = 7

\* A heading of level 2 whose text holds a backslash has been processed
\* after other content moved the cursor.
C6_Witness ==
    /\ Parsed
    /\ IsHeadingOf(LastLine, 2)
    /\ StripLen(LastLine) < Len(LastLine)
    /\ pre.index > 1
    /\ index > pre.index

\* The marker of a flat checkbox item.
FlatBox == Str("- [ ] ")

\* The line is a flat checkbox item "- [ ] x".
CheckboxItem(line) ==
    /\ Len(Body(line)) >= 6
    /\ SubSeq(line, 1, 6) = FlatBox

ItemText(line) == From(Body(line), 7)

\* C7: a flat checkbox list "- [ ] x1", ..., "- [ ] xn" yields n insertText
\* requests whose texts are the item texts followed by a newline, at strictly
\* increasing offsets, and its close yields one createParagraphBullets with
\* preset BULLET_CHECKBOX from the first item's offset to the cursor before
\* the indentation correction.
C7_FlatCheckboxList ==
    /\ (Len(lines) >= 1 /\ \A i \in 1..Len(lines) : CheckboxItem(lines[i])) =>
          /\ Len(requests) = Len(lines)
          /\ \A i \in 1..Len(lines) :
                /\ requests[i].op = "insertText"
                /\ requests[i].text = ItemText(lines[i]) \o <<Newline>>
                /\ i > 1 => requests[i - 1].index < requests[i].index
    /\ ( /\ Len(lines) >= 2
         /\ \A i \in 1..(Len(lines) - 1) : CheckboxItem(lines[i])
         /\ pre.mode = "LIST" /\ mode # "LIST" ) =>
          /\ Len(BulletOps) = 1
          /\ requests[Len(lines)] =
                [op |-> "createParagraphBullets",
                 startIndex |-> requests[1].index, endIndex |-> pre.index,
                 bulletPreset |-> "BULLET_CHECKBOX"]

\* The text that the last line puts in the document and the offset it is put
\* at: the last insertText appended for it, or the line at the cursor.
Placed ==
    IF \E i \in 1..Len(Appended) : Appended[i].op = "insertText"
    THEN LET i == CHOOSE j \in 1..Len(Appended) :
                      /\ Appended[j].op = "insertText"
                      /\ \A m \in (j + 1)..Len(Appended) :
                             Appended[m].op # "insertText"
         IN  [at |-> Appended[i].index, text |-> Appended[i].text]
    ELSE [at |-> CursorAfterClose, text |-> LastLine]

\* A tag "@word:" occupies the (0-based, half-open) positions [s, e) of text.
TagIn(text, s, e) ==
    /\ s + 2 <= e /\ e <= Len(text)
    /\ text[s + 1] = At
    /\ \A i \in (s + 2)..(e - 1) : text[i] \in WordChars
    /\ text[e] = Colon

IsTextStyle(r) == r.op = "updateTextStyle"

\* C8: for a line whose text holds a tag "@word:", exactly one updateTextStyle
\* is appended, and its range is [c + s, c + e - 1) for the offset c the text
\* is placed at and the positions [s, e) of the tag in the text.
C8_TagRange ==
    (Parsed /\ \E s, e \in 0..Len(Placed.text) : TagIn(Placed.text, s, e)) =>
        LET styles == SelectSeq(Appended, IsTextStyle)
        IN  /\ Len(styles) = 1
            /\ \E s, e \in 0..Len(Placed.text) :
                  /\ TagIn(Placed.text, s, e)
                  /\ styles[1].startIndex = Placed.at + s
                  /\ styles[1].endIndex = Placed.at + e - 1

\* C9: every createParagraphBullets has startIndex <= endIndex, and its
\* startIndex is the cursor recorded when the mode became LIST for the run
\* it closes.
C9_BulletsRange ==
    /\ Len(BulletOps) <= Len(entered)
    /\ \A i \in 1..Len(BulletOps) :
          /\ BulletOps[i].startIndex = entered[i]
          /\ BulletOps[i].startIndex <= BulletOps[i].endIndex

\* A list of several lines that began after other content has been closed.
C9_Witness ==
    \E i \in 1..Len(BulletOps) :
        /\ BulletOps[i].startIndex > 1
        /\ \E j, k \in 1..Len(requests) :
              /\ j < k
              /\ requests[j].op = "insertText" /\ requests[k].op = "insertText"
              /\ requests[j].index = BulletOps[i].startIndex
              /\ requests[k].index > requests[j].index
              /\ requests[k].index < BulletOps[i].endIndex

\* Total length, backslashes removed, of the texts of the insertText
\* requests of rs.
RECURSIVE InsertedLen(_)
InsertedLen(rs) ==
    IF rs = <<>> THEN 0
    ELSE (IF Head(rs).op = "insertText" THEN StripLen(Head(rs).text) ELSE 0)
         + InsertedLen(Tail(rs))

\* C10: over the processing of a line, the subtraction of a list close left
\* aside, the cursor grows by the total backslash-stripped length of the
\* texts of the insertText requests appended for the line.
C10_CursorByInsertedText ==
    Len(lines) > 0 =>
        index - (IF Parsed THEN CursorAfterClose ELSE pre.index)
            = InsertedLen(Appended)

----------------------------------------------------------------------------
\* The working line of a parsed line, described from the input.

\* Number of leading whitespace characters of the line.
LeadWs(line) ==
    CHOOSE w \in 0..Len(line) :
        /\ \A i \in 1..w : line[i] \in Whitespace
        /\ w = Len(line) \/ line[w + 1] \notin Whitespace

\* The checkbox marker.
Box == Str("[ ]")

\* s without its leading "[ ]" markers.
RECURSIVE DropBoxes(_)
DropBoxes(s) ==
    IF Len(s) >= 3 /\ SubSeq(s, 1, 3) = Box
    THEN DropBoxes(From(s, 4))
    ELSE s

\* The list line carries the checkbox marker.
HasBox(line) ==
    LET r == From(Body(line), LeadWs(line) + 3)
    IN  Len(r) >= 3 /\ SubSeq(r, 1, 3) = Box

\* What follows the bullet and the checkbox markers of a list line.
Captured(line) == DropBoxes(From(Body(line), LeadWs(line) + 3))

\* floor(w / 2) tabs, the captured text, a newline.
Rewritten(line) ==
    Tabs(LeadWs(line) \div 2) \o Captured(line) \o <<Newline>>

\* The line after the list check.
AfterList(line) == IF IsListLine(line) THEN Rewritten(line) ELSE line

\* s is n '#' characters followed by a whitespace character.
HeadingShaped(s, n) ==
    /\ n >= 1
    /\ Len(s) >= n + 1
    /\ \A i \in 1..n : s[i] = Hash
    /\ s[n + 1] \in Whitespace

IsHeadingLine(s) == \E n \in 1..Len(s) : HeadingShaped(s, n)

\* The line after the list and heading checks.
WorkingLine(line) ==
    LET a == AfterList(line)
    IN  IF IsHeadingLine(a)
        THEN Body(From(a, (CHOOSE n \in 1..Len(a) : HeadingShaped(a, n)) + 2))
        ELSE a

\* The unit the heading check adds to the cursor.
HeadingUnit(line) == IF IsHeadingLine(AfterList(line)) THEN 1 ELSE 0

\* The line is one or more backslashes and nothing else but its terminator.
OnlyBackslashes(line) ==
    LET b == Body(line) IN Len(b) >= 1 /\ \A i \in 1..Len(b) : b[i] = Backslash

\* C11 as stated: a non-delimiter line parsed outside FOOTER advances the
\* cursor, after its checks, by the length of the working line without
\* backslashes, and a line of backslashes only advances it by zero.
C11_BackslashLineZero ==
    (Parsed /\ ~HyphensOnly(LastLine, 1)) =>
        /\ index = CursorAfterClose + HeadingUnit(LastLine)
                       + StripLen(WorkingLine(LastLine))
        /\ OnlyBackslashes(LastLine) => index = CursorAfterClose

\* C11 amended: a non-delimiter line parsed outside FOOTER advances the
\* cursor, after its checks, by the length of the working line without
\* backslashes; a line of backslashes only advances it by the length of its
\* line terminator: one if it ends with a newline, zero if it is the last
\* line of a file without a final newline.
C11_CursorAdvance ==
    (Parsed /\ ~HyphensOnly(LastLine, 1)) =>
        /\ index = CursorAfterClose + HeadingUnit(LastLine)
                       + StripLen(WorkingLine(LastLine))
        /\ OnlyBackslashes(LastLine) =>
              index = CursorAfterClose + (Len(LastLine) - Len(Body(LastLine)))

\* A line of backslashes that ends with a newline has been parsed and has
\* moved the cursor by one.
C11_Witness ==
    /\ Parsed
    /\ OnlyBackslashes(LastLine)
    /\ Len(LastLine) > Len(Body(LastLine))
    /\ index = pre.index + 1

\* C12 as stated: the cursor after a line is at least the cursor before
\* it, and the offsets of the insertText requests never decrease in emission
\* order.
C12_Monotonic ==
    /\ Len(lines) > 0 => index >= pre.index
    /\ \A i, j \in 1..Len(requests) :
          (i < j /\ requests[i].op = "insertText"
                 /\ requests[j].op = "insertText") =>
              requests[i].index <= requests[j].index

\* C12 amended: the cursor after a line is at least the cursor before it
\* less the indents that the line's list close subtracts (so a line that
\* closes no list never lowers it), and the offsets of two insertText
\* requests with no createParagraphBullets between them never decrease.
C12_MonotonicButClose ==
    /\ Len(lines) > 0 => index >= CursorAfterClose
    /\ \A i, j \in 1..Len(requests) :
          (/\ i < j
           /\ requests[i].op = "insertText"
           /\ requests[j].op = "insertText"
           /\ \A k \in (i + 1)..(j - 1) : ~IsBullets(requests[k])) =>
              requests[i].index <= requests[j].index

\* The close of an indented list has put an insertText at an offset below
\* that of an earlier one.
C12_Witness ==
    /\ Parsed
    /\ \E i, j \in 1..Len(requests) :
          /\ i < j
          /\ requests[i].op = "insertText"
          /\ requests[j].op = "insertText"
          /\ requests[j].index < requests[i].index

\* C13: between two lines the mode changes only from NONE to LIST on a list
\* line, from NONE to FOOTER on a delimiter, from LIST to NONE on a line that
\* is neither, and from LIST to FOOTER on a delimiter; a line that takes the
\* mode out of LIST appends exactly one createParagraphBullets, before any
\* other request, and no other line appends one.
C13_Transitions ==
    Len(lines) > 0 =>
        /\ mode # pre.mode =>
              \/ /\ pre.mode = "NONE" /\ mode = "LIST"
                 /\ IsListLine(LastLine)
              \/ /\ pre.mode = "NONE" /\ mode = "FOOTER"
                 /\ HyphensOnly(LastLine, 1)
              \/ /\ pre.mode = "LIST" /\ mode = "NONE"
                 /\ ~IsListLine(LastLine) /\ ~HyphensOnly(LastLine, 1)
              \/ /\ pre.mode = "LIST" /\ mode = "FOOTER"
                 /\ HyphensOnly(LastLine, 1)
        /\ IF pre.mode = "LIST" /\ mode # "LIST"
           THEN /\ Len(SelectSeq(Appended, IsBullets)) = 1
                /\ IsBullets(Appended[1])
           ELSE Len(SelectSeq(Appended, IsBullets)) = 0

\* Two lists have been closed, the second one by the footer delimiter.
C13_Witness ==
    /\ Len(BulletOps) = 2
    /\ pre.mode = "LIST"
    /\ mode = "FOOTER"

\* The list lines from position q to position n of the input form one run
\* that begins at q (blank lines do not interrupt a run); RunFirst(n) is the
\* position of the first line of the run that reaches position n.
RunFrom(q, n) ==
    /\ IsListLine(lines[q])
    /\ \A j \in q..n : IsListLine(lines[j]) \/ ~NonBlank(lines[j])

RunFirst(n) ==
    CHOOSE q \in 1..n : RunFrom(q, n) /\ \A r \in 1..(q - 1) : ~RunFrom(r, n)

\* The list lines of the run that the last line has closed.
ClosedRun ==
    SelectSeq(SubSeq(lines, RunFirst(Len(lines) - 1), Len(lines) - 1),
              IsListLine)

\* The last line has closed a list.
Closing == Parsed /\ pre.mode = "LIST" /\ ~IsListLine(LastLine)

\* The text of a list item: what follows the bullet marker and, if there is
\* one, the checkbox marker and its separating space.
ItemTextOf(line) ==
    LET r == From(Body(line), LeadWs(line) + 3)
    IN  IF HasBox(line)
        THEN IF Len(r) >= 4 /\ r[4] = Space THEN From(r, 5) ELSE From(r, 4)
        ELSE r

RECURSIVE SumIndents(_)
SumIndents(ls) ==
    IF ls = <<>> THEN 0
    ELSE (LeadWs(Head(ls)) \div 2) + SumIndents(Tail(ls))

RECURSIVE SumItems(_)
SumItems(ls) ==
    IF ls = <<>> THEN 0
    ELSE StripLen(ItemTextOf(Head(ls))) + 1 + SumItems(Tail(ls))

\* C14: the close of a list subtracts from the cursor the sum of the indent
\* levels of the lines of the run, and the cursor right after the close is
\* the run's start offset plus, for each item, the length of its text
\* without backslashes plus one.
C14_NoIndentLeak ==
    Closing =>
        /\ pre.indents = SumIndents(ClosedRun)
        /\ CursorAfterClose = pre.index - SumIndents(ClosedRun)
        /\ HyphensOnly(LastLine, 1) => index = CursorAfterClose
        /\ CursorAfterClose = entered[Len(entered)] + SumItems(ClosedRun)

\* C15 as stated: a list line with w leading whitespace characters is
\* rewritten as floor(w / 2) tabs, the captured text and a newline; insertText
\* of the rewritten line is appended at the cursor held before the line,
\* floor(w / 2) is added to indents, and the rewritten line is what the
\* heading check, the tag check and the cursor advance use: the tag is
\* searched in the rewritten line and the advance is the length of the
\* rewritten line without backslashes.
C15_RewrittenLineUsed ==
    (Parsed /\ IsListLine(LastLine)) =>
        LET w == LeadWs(LastLine)
            rewritten == Tabs(w \div 2) \o Captured(LastLine) \o <<Newline>>
            unit == HeadingUnit(LastLine)
            styles == SelectSeq(Appended, IsTextStyle)
        IN  /\ Len(Appended) >= 1
            /\ Appended[1] = [op |-> "insertText", index |-> pre.index,
                              text |-> rewritten]
            /\ indents = pre.indents + (w \div 2)
            /\ (\E i \in 1..Len(Appended) :
                    Appended[i].op = "updateParagraphStyle")
                  <=> IsHeadingLine(rewritten)
            /\ IF \E s, e \in 0..Len(rewritten) : TagIn(rewritten, s, e)
               THEN /\ Len(styles) = 1
                    /\ \E s, e \in 0..Len(rewritten) :
                          /\ TagIn(rewritten, s, e)
                          /\ styles[1].startIndex = pre.index + unit + s
                          /\ styles[1].endIndex = pre.index + unit + e - 1
               ELSE Len(styles) = 0
            /\ index = pre.index + unit + StripLen(rewritten)

\* C15 amended: a list line with w leading whitespace characters is rewritten
\* as floor(w / 2) tabs, the captured text and a newline; insertText of the
\* rewritten line is appended at the cursor held before the line, floor(w / 2)
\* is added to indents, and the heading check works on the rewritten line,
\* not on the raw one; the tag check and the cursor advance work on the
\* rewritten line when it is not a heading, and on the heading text taken
\* from it (after the heading's unit advance) when it is.
C15_ListLineRewritten ==
    (Parsed /\ IsListLine(LastLine)) =>
        LET w == LeadWs(LastLine)
            rewritten == Tabs(w \div 2) \o Captured(LastLine) \o <<Newline>>
            working == WorkingLine(LastLine)
            unit == HeadingUnit(LastLine)
            styles == SelectSeq(Appended, IsTextStyle)
        IN  /\ Len(Appended) >= 1
            /\ Appended[1] = [op |-> "insertText", index |-> pre.index,
                              text |-> rewritten]
            /\ indents = pre.indents + (w \div 2)
            /\ (\E i \in 1..Len(Appended) :
                    Appended[i].op = "updateParagraphStyle")
                  <=> IsHeadingLine(rewritten)
            /\ IsHeadingLine(rewritten) =>
                  /\ unit = 1
                  /\ working = Body(From(rewritten,
                         (CHOOSE n \in 1..Len(rewritten) :
                              HeadingShaped(rewritten, n)) + 2))
            /\ ~IsHeadingLine(rewritten) => unit = 0 /\ working = rewritten
            /\ IF \E s, e \in 0..Len(working) : TagIn(working, s, e)
               THEN /\ Len(styles) = 1
                    /\ \E s, e \in 0..Len(working) :
                          /\ TagIn(working, s, e)
                          /\ styles[1].startIndex = pre.index + unit + s
                          /\ styles[1].endIndex = pre.index + unit + e - 1
               ELSE Len(styles) = 0
            /\ index = pre.index + unit + StripLen(working)

\* A list line whose rewritten line is a heading has been added to a list
\* that already held indented lines: the cursor has moved by the heading's
\* unit and the length of the heading text, not by that of the rewritten line.
C15_Witness ==
    /\ Parsed
    /\ IsListLine(LastLine)
    /\ IsHeadingLine(Rewritten(LastLine))
    /\ pre.mode = "LIST"
    /\ pre.indents >= 2
    /\ index = pre.index + 1 + StripLen(WorkingLine(LastLine))
    /\ index < pre.index + StripLen(Rewritten(LastLine))

\* The bullet preset that a run whose first line is the given line gets.
PresetOf(line) ==
    IF HasBox(line) THEN "BULLET_CHECKBOX" ELSE "BULLET_DISC_CIRCLE_SQUARE"

\* C16: the preset of the createParagraphBullets that closes a run is the one
\* of the first line of that run (BULLET_CHECKBOX if it carries "[ ]", the
\* bulleted preset otherwise), whatever the later lines of the run and the
\* earlier runs are; while a run is open, list_type is that of its first
\* line.
C16_PresetOfFirstLine ==
    /\ (Len(lines) > 0 /\ mode = "LIST") =>
          "BULLET_" \o list_type = PresetOf(lines[RunFirst(Len(lines))])
    /\ Closing =>
          /\ IsBullets(Appended[1])
          /\ Appended[1].bulletPreset =
                 PresetOf(lines[RunFirst(Len(lines) - 1)])

\* A run whose first line carries the checkbox marker and whose last line
\* does not has been closed.
C16_Witness ==
    /\ Closing
    /\ Len(ClosedRun) >= 2
    /\ HasBox(ClosedRun[1])
    /\ ~HasBox(ClosedRun[Len(ClosedRun)])
    /\ Appended[1].bulletPreset = "BULLET_CHECKBOX"

\* The line holds whitespace only.
IsBlankLine(line) == \A i \in 1..Len(line) : line[i] \in Whitespace

\* C17: reading a blank line changes nothing in any mode: the mode, the
\* cursor, list_start, indents, list_type, the requests and the footer string
\* are left as they were.
C17_BlankSkipped ==
    [][(Len(lines') = Len(lines) + 1 /\ IsBlankLine(lines'[Len(lines')])) =>
          UNCHANGED <<mode, index, list_start, indents, list_type, requests,
                      footer_text>>]_vars

\* A blank line has been read between two list lines, and the list is
\* still open with no createParagraphBullets emitted.
C17_Witness ==
    /\ Len(lines) >= 3
    /\ IsListLine(lines[Len(lines) - 2])
    /\ IsBlankLine(lines[Len(lines) - 1])
    /\ IsListLine(LastLine)
    /\ mode = "LIST"
    /\ pre.mode = "LIST"
    /\ BulletOps = <<>>

\* C18: while the mode is LIST, list_start is at most the cursor.
C18_StartWithinCursor == mode = "LIST" => list_start <= index

\* A list that began after other content holds several lines, some of them
\* indented.
C18_Witness ==
    /\ mode = "LIST"
    /\ pre.mode = "LIST"
    /\ list_start > 1
    /\ indents >= 2
    /\ index > list_start

\* C19: the cursor is never below 1, and the cursor right after the close of
\* a run of k list lines is at least the run's start offset plus k.
C19_CursorFloor ==
    /\ index >= 1
    /\ Closing =>
          /\ CursorAfterClose >= entered[Len(entered)] + Len(ClosedRun)
          /\ CursorAfterClose > pre.list_start
          /\ index >= CursorAfterClose

\* A run of several list lines with indentation has been closed.
C19_Witness ==
    /\ Closing
    /\ Len(ClosedRun) >= 2
    /\ pre.indents >= 2
    /\ index < pre.index

\* C20: between lines, when the mode is NONE or FOOTER, list_start and
\* indents are 0; when a line opens a list, indents is the indent level of
\* that line alone.
C20_NoStaleListFields ==
    /\ mode \in {"NONE", "FOOTER"} => list_start = 0 /\ indents = 0
    /\ (Len(lines) > 0 /\ pre.mode # "LIST" /\ mode = "LIST") =>
          indents = LeadWs(LastLine) \div 2

\* An indented list has been opened after an earlier indented list was
\* closed.
C20_Witness ==
    /\ Len(BulletOps) >= 1
    /\ pre.mode = "NONE"
    /\ mode = "LIST"
    /\ indents >= 1
    /\ \E i \in 1..Len(requests) :
          /\ requests[i].op = "insertText"
          /\ requests[i].index < BulletOps[1].endIndex
          /\ requests[i].text[1] = Tab

====
